---- MODULE Spec2Model ----
(***************************************************************************)
(* A model of the data-stream-etl repository: the Strava sync run          *)
(* (extractors/strava.py), its place in the pipeline (airflow/dags/        *)
(* etl_dag.py, main.py), the MySQL merge-upsert (utility/                  *)
(* database_handler.py), the file-based cache (utility/                    *)
(* download_data_local.py) and the legacy extractor (extractors/           *)
(* strava_extractor.py).                                                   *)
(***************************************************************************)
EXTENDS Integers, Sequences, FiniteSets, TLC

(***************************************************************************)
(* Program constants (constants.py, class APIHandler).                     *)
(***************************************************************************)
HTTP_200_OK == 200
HTTP_400_BAD_REQUEST == 400
HTTP_401_UNAUTHORISED == 401
HTTP_404_NOT_FOUND == 404
HTTP_429_RATE_LIMITED == 429
HTTP_500_SERVER_ERROR == 500
ITEMS_PER_PAGE == 50

(***************************************************************************)
(* Bounds of the model.                                                    *)
(***************************************************************************)
\* sync runs started in one behaviour
MaxRuns == 2
\* non-200 responses the upstream gives within one run
MaxErrors == 2
\* the largest "small" upstream (number of activities)
MaxSmall == 2

\* Sizes of the upstream activity list in a whole sync run.
UpstreamSizes == 0..MaxSmall

\* Sizes of the upstream activity list in the id fetch alone: the small ones,
\* and the ones that span several pages of ITEMS_PER_PAGE (51, 75 and 100).
FetchSizes ==
    (0..MaxSmall) \cup {ITEMS_PER_PAGE + 1, ITEMS_PER_PAGE + 25, 2 * ITEMS_PER_PAGE}

\* The statuses the upstream API may answer with (204 stands for the
\* statuses that are neither 200 nor a 4xx/5xx).
StatusCodes ==
    {HTTP_200_OK, 204, HTTP_400_BAD_REQUEST, HTTP_401_UNAUTHORISED,
     HTTP_404_NOT_FOUND, HTTP_429_RATE_LIMITED, HTTP_500_SERVER_ERROR}

Min(a, b) == IF a < b THEN a ELSE b

\* str(activity["id"]): the decimal string of an integer id.  The conversion
\* is injective; a string is never equal to the integer it was made from.
Str(n) == [str |-> n]
StrSet(S) == {Str(n) : n \in S}

VARIABLES
    \* ---- durable state
    upstream,            \* number of activities the upstream API holds (ids 0..upstream-1)
    cache,               \* Redis set "strava_activity_ids"
    s3,                  \* ids of the records uploaded to the S3 bucket
    staged,              \* rows of the local copy strava_data.xlsx (a sequence of records)
    clean,               \* rows of the clean-data file the transformer writes
    table,               \* rows of the MySQL table (a sequence of rows)
    \* ---- one sync run (strava_extractor and the tasks that follow it)
    pc,                  \* position of the run
    runs,                \* runs started so far
    result,              \* how the last run ended
    cached_ids,
    page,
    all_activity_ids,
    new_activity_ids,
    todo,                \* ids the detail loop still has to fetch, in iteration order
    activity_data_json,
    errors,              \* non-200 responses received in this run (legacy
                         \* extractor: the answers it only logs as errors)
    pageLog,             \* <<page, status>> of every id-page request of this fetch
    pageRequests,        \* id-page requests issued in this run
    lastDetail,          \* <<id, status>> of the last detail request, or <<>>
    detailRequests,      \* detail requests issued in this run
    requested,           \* ids a detail request was issued for in this run
    detailErrors,        \* non-200 responses to detail requests in this run
    startKeys,           \* primary keys in the table when the run started
    \* ---- concurrent insert_data calls on one table (the batch is "clean")
    conns,               \* per connection: the state of its insert_data call
    calls,               \* insert_data calls started so far
    fresh,               \* the table is what a complete, undisturbed insert_data
                         \* of the current clean file left
    \* ---- the legacy extractor (strava_extractor.py)
    notFound,            \* ids whose detail request was answered 404
    \* ---- the file-based cache (download_data_local.update_cache)
    cached_data,
    new_data,
    updated_cached_data,
    \* ---- the Redis id set as its callers see it
    readLog,             \* the sets get_cached_ids returned, oldest first
    lastAdd,             \* the last update_cached_ids call: set before, ids, set after
    \* ---- credentials (refresh_access_token, api_error_handler)
    env,                 \* the .env file: STRAVA_ACCESS_TOKEN, STRAVA_REFRESH_TOKEN
    token_endpoint,      \* the token endpoint: calls received, tokens issued
    fetchers,            \* per process: its run of the extractor
    \* ---- post_load_checks
    pre_Load_dfs,        \* table name -> rows of the clean file
    db_dataframes,       \* table name -> rows fetched from the database
    table_index,         \* tables post_load_checks has dealt with
    outcomes,            \* table name -> what post_load_checks logged for it
    compared,            \* the <<table, pre-load row, database row>> compared
    \* ---- the tasks of main.py and of the DAG
    mode,                \* "main" (main.py) or "dag" (etl_dag.py)
    tasks                \* task -> "none", "running", "success", "failed", ...

durableVars == <<upstream, cache, s3, staged, clean, table>>
fetchVars == <<cached_ids, page, all_activity_ids, pageLog, pageRequests>>
detailVars == <<new_activity_ids, todo, activity_data_json, lastDetail,
                detailRequests, requested, detailErrors>>
runVars == <<pc, runs, result, errors, startKeys>>
upsertVars == <<conns, calls, fresh>>
fileVars == <<cached_data, new_data, updated_cached_data>>
otherVars == <<upsertVars, notFound, fileVars>>
redisVars == <<readLog, lastAdd>>
authVars == <<env, token_endpoint, fetchers>>
validVars == <<pre_Load_dfs, db_dataframes, table_index, outcomes, compared>>
taskVars == <<mode, tasks>>
sideVars == <<redisVars, authVars, validVars, taskVars>>
vars == <<durableVars, fetchVars, detailVars, runVars, otherVars, sideVars>>

\* the parts of the state an operation has nothing to do with
RedisIdle == readLog = <<>> /\ lastAdd = <<>>
AuthIdle == env = <<>> /\ token_endpoint = <<>> /\ fetchers = <<>>
ValidIdle ==
    /\ pre_Load_dfs = <<>> /\ db_dataframes = <<>> /\ table_index = 0
    /\ outcomes = <<>> /\ compared = {}
TaskIdle == mode = "none" /\ tasks = <<>>

(***************************************************************************)
(* Helpers on sequences.                                                   *)
(***************************************************************************)
RECURSIVE SeqOfRange(_, _)
\* the sequence a, a+1, ..., b
SeqOfRange(a, b) == IF a > b THEN <<>> ELSE <<a>> \o SeqOfRange(a + 1, b)

RecordIds(rows) == {rows[i].id : i \in 1..Len(rows)}
Keys(t) == {t[i].key : i \in 1..Len(t)}
RowsWithKey(t, k) == {i \in 1..Len(t) : t[i].key = k}

(***************************************************************************)
(* Merge-upsert (database_handler.py).  A row is [key, val]; val = None    *)
(* stands for a null in a NOT NULL column, which MySQL rejects.            *)
(***************************************************************************)
\* the null a NaN cell is turned into (database_handler.py: "else None")
None == 0
\* the non-null values a cell may hold
Vals == {1, 2}

\* a bug: the table is emptied before the row is written (delete and load)
InsertQueryTruncate(t, r) == <<r>>

\* cursor.execute raises (mysql.connector.Error): a constraint violation
ExecuteFails(r) == r.val = None

\* a bug: the conflict on the primary key is not resolved (a plain INSERT
\* into a table whose key is not declared)
InsertQueryNoConflict(t, r) == Append(t, r)

\* INSERT ... ON DUPLICATE KEY UPDATE col = VALUES(col): one statement that
\* inserts the row, or overwrites every column of the row with that key
InsertQuery(t, r) ==
    IF RowsWithKey(t, r.key) = {}
    THEN Append(t, r)
    ELSE [i \in 1..Len(t) |-> IF t[i].key = r.key THEN r ELSE t[i]]

\* cursor.rowcount after the statement: 1 for a new row, 2 for an existing
\* row that was changed, 0 for an existing row set to its current values
RowCount(t, r) ==
    IF RowsWithKey(t, r.key) = {} THEN 1
    ELSE IF \A i \in RowsWithKey(t, r.key) : t[i] = r THEN 0
    ELSE 2

\* One iteration of the loop of insert_data on state st = [table, added,
\* updated]: execute, count, commit; on an Error log and roll back.
InsertStep(st, r) ==
    IF ExecuteFails(r)
    THEN st
    ELSE [table |-> InsertQuery(st.table, r),
          added |-> st.added + (IF RowCount(st.table, r) = 1 THEN 1 ELSE 0),
          updated |-> st.updated + (IF RowCount(st.table, r) = 2 THEN 1 ELSE 0)]

RECURSIVE InsertFrom(_, _, _)
InsertFrom(st, batch, i) ==
    IF i > Len(batch) THEN st ELSE InsertFrom(InsertStep(st, batch[i]), batch, i + 1)

\* insert_data(table_name, data_frame, column_mapping), run to its end
InsertData(t, batch) == InsertFrom([table |-> t, added |-> 0, updated |-> 0], batch, 1)

(***************************************************************************)
(* The upstream API.                                                       *)
(***************************************************************************)
UpstreamIds == 0..(upstream - 1)

\* GET athlete/activities?page=p&per_page=ITEMS_PER_PAGE answered 200
PageOf(p) == ((p - 1) * ITEMS_PER_PAGE)..(Min(p * ITEMS_PER_PAGE, upstream) - 1)

\* GET activities/{id} answered 200
DetailOf(id) == [id |-> id, val |-> 1]

\* the rows a run that synced the ids S earlier left in the files and the table
RecordsOf(n) == [i \in 1..n |-> DetailOf(i - 1)]
RowOf(rec) == [key |-> rec.id, val |-> rec.val]
RowsOfRecords(recs) == [i \in 1..Len(recs) |-> RowOf(recs[i])]

(***************************************************************************)
(* api_error_handler (strava.py).  "retry" is a True return, "false" a     *)
(* False return, "raise" an exception.  refreshOk is the outcome of        *)
(* refresh_access_token.                                                   *)
(***************************************************************************)
\* a bug: a failed token refresh is logged and the request retried
api_error_handlerSwallow(status_code, refreshOk) ==
    IF status_code = HTTP_429_RATE_LIMITED THEN "retry"
    ELSE IF status_code = HTTP_401_UNAUTHORISED THEN "retry"
    ELSE IF 400 <= status_code /\ status_code < 600 THEN "raise"
    ELSE "false"

\* a bug: a rate-limited response is raised like any other 4xx
api_error_handlerRateLimitFatal(status_code, refreshOk) ==
    IF status_code = HTTP_401_UNAUTHORISED
    THEN (IF refreshOk THEN "retry" ELSE "raise")
    ELSE IF 400 <= status_code /\ status_code < 600 THEN "raise"
    ELSE "false"

api_error_handler(status_code, refreshOk) ==
    IF status_code = HTTP_429_RATE_LIMITED THEN "retry"
    ELSE IF status_code = HTTP_401_UNAUTHORISED
         THEN (IF refreshOk THEN "retry" ELSE "raise")
    ELSE IF status_code = HTTP_404_NOT_FOUND THEN "raise"
    ELSE IF status_code = HTTP_500_SERVER_ERROR THEN "raise"
    ELSE IF 400 <= status_code /\ status_code < 600 THEN "raise"
    ELSE "false"

(***************************************************************************)
(* The sync run of strava.py and the tasks the DAG runs after it.          *)
(***************************************************************************)
RECURSIVE Ascending(_)
\* the elements of a set of strings of integers, smallest first
Ascending(S) ==
    IF S = {} THEN <<>>
    ELSE LET m == CHOOSE x \in S : \A y \in S : x.str <= y.str
         IN <<m>> \o Ascending(S \ {m})

Reverse(q) == [i \in 1..Len(q) |-> q[Len(q) + 1 - i]]

\* the orders in which "for activity_id in new_activity_ids" may walk the set
IterationOrders(S) == {Ascending(S), Reverse(Ascending(S))}

\* redis_client.smembers(cache_key) in get_cached_ids; on an exception
\* get_cached_ids logs and returns set()
get_cached_ids(readOk) == IF readOk THEN cache ELSE {}

\* a bug: the symmetric difference instead of the difference
ChangeSetSymmetric(fetched, cached) ==
    {x \in fetched : x \notin cached} \cup {x \in cached : x \notin fetched}

\* new_activity_ids = all_activity_ids - cached_ids
ChangeSet(fetched, cached) == {x \in fetched : x \notin cached}

\* a bug: the page counter is incremented before the response is checked
NextPageBeforeCheck(p, status, activities) ==
    IF activities # {} THEN p + 1 ELSE p

\* get_activity_ids: the page requested after a response to the request for
\* page p ("continue" keeps the page, "page += 1" follows a non-empty 200 page)
NextPage(p, status, activities) ==
    IF status = HTTP_200_OK /\ activities # {} THEN p + 1 ELSE p

\* a bug: the ids are cached before the batch is saved
ExtractorNextCacheFirst(step) ==
    CASE step = "detail" -> "cache"
      [] step = "cache" -> "s3"
      [] step = "s3" -> "local"
      [] step = "local" -> "transform"

\* strava_extractor: the step that follows each step once new ids were found
ExtractorNext(step) ==
    CASE step = "detail" -> "s3"
      [] step = "s3" -> "local"
      [] step = "local" -> "cache"
      [] step = "cache" -> "transform"

SyncedChoices(n) == {k \in 0..n : k <= MaxSmall \/ k = ITEMS_PER_PAGE \/ k = n}

\* The state before a run: an earlier run synced the first k activities.
InitRun(sizes) ==
    /\ upstream \in sizes
    /\ \E k \in SyncedChoices(upstream) :
          /\ cache = StrSet(0..(k - 1))
          /\ s3 = 0..(k - 1)
          /\ staged = RecordsOf(k)
          /\ clean = RowsOfRecords(RecordsOf(k))
          /\ table = RowsOfRecords(RecordsOf(k))
    /\ pc = "idle" /\ runs = 0 /\ result = "none" /\ errors = 0
    /\ startKeys = {}
    /\ cached_ids = {} /\ page = 1 /\ all_activity_ids = {}
    /\ pageLog = <<>> /\ pageRequests = 0
    /\ new_activity_ids = {} /\ todo = <<>> /\ activity_data_json = <<>>
    /\ lastDetail = <<>> /\ detailRequests = 0 /\ requested = {}
    /\ detailErrors = 0

\* the state of a connection that has not called insert_data
IdleConn ==
    [phase |-> "idle", i |-> 1, added |-> 0, updated |-> 0, again |-> FALSE,
     solo |-> TRUE, batch |-> <<>>, before |-> <<>>, after |-> <<>>]

Conns == {"a", "b"}

InitOther ==
    /\ conns = [c \in Conns |-> IdleConn] /\ calls = 0 /\ fresh = FALSE
    /\ notFound = {}
    /\ cached_data = <<>> /\ new_data = <<>> /\ updated_cached_data = <<>>
    /\ RedisIdle /\ AuthIdle /\ ValidIdle /\ TaskIdle

\* strava_extractor starts: cached_ids = cache_data.get_cached_ids(...), and
\* get_activity_ids sets page = 1, all_activity_ids = set()
StartRun(readOk) ==
    /\ pc = "idle" /\ runs < MaxRuns
    /\ runs' = runs + 1
    /\ pc' = "ids" /\ result' = "running" /\ errors' = 0
    /\ startKeys' = Keys(table)
    /\ cached_ids' = get_cached_ids(readOk)
    /\ page' = 1 /\ all_activity_ids' = {}
    /\ pageLog' = <<>> /\ pageRequests' = 0
    /\ new_activity_ids' = {} /\ todo' = <<>> /\ activity_data_json' = <<>>
    /\ lastDetail' = <<>> /\ detailRequests' = 0 /\ requested' = {}
    /\ detailErrors' = 0
    /\ UNCHANGED <<durableVars, otherVars>>
    /\ UNCHANGED sideVars

\* One iteration of the loop of get_activity_ids: the request for the
\* current page and what the code does with the response.
PageRequest(status, refreshOk) ==
    /\ pc = "ids"
    /\ status # HTTP_200_OK => errors < MaxErrors
    /\ pageLog' = Append(pageLog, <<page, status>>)
    /\ pageRequests' = pageRequests + 1
    /\ page' = NextPage(page, status, PageOf(page))
    /\ IF status # HTTP_200_OK
       THEN /\ errors' = errors + 1
            /\ IF api_error_handler(status, refreshOk) = "raise"
               THEN pc' = "idle" /\ result' = "aborted"
               ELSE pc' = "ids" /\ result' = result
            /\ UNCHANGED all_activity_ids
       ELSE /\ errors' = errors
            /\ result' = result
            /\ IF PageOf(page) = {}
               THEN pc' = "resolve" /\ UNCHANGED all_activity_ids
               ELSE /\ pc' = "ids"
                    /\ all_activity_ids' = all_activity_ids \cup StrSet(PageOf(page))
    /\ UNCHANGED otherVars
    /\ UNCHANGED <<durableVars, detailVars, cached_ids, runs, startKeys>>
    /\ UNCHANGED sideVars

\* strava_extractor after get_activity_ids returned: the change-set
Resolve(order) ==
    /\ pc = "resolve"
    /\ new_activity_ids' = ChangeSet(all_activity_ids, cached_ids)
    /\ order \in IterationOrders(new_activity_ids')
    /\ todo' = order
    /\ pageLog' = <<>>
    /\ pc' = IF Cardinality(new_activity_ids') > 0 THEN "detail" ELSE "transform"
    /\ UNCHANGED otherVars
    /\ UNCHANGED <<durableVars, cached_ids, page, all_activity_ids, pageRequests,
                   activity_data_json, lastDetail, detailRequests, requested,
                   detailErrors, runs, result, errors, startKeys>>
    /\ UNCHANGED sideVars

\* One iteration of the inner loop of get_activity_data: the request for the
\* current activity id and what the code does with the response.
DetailRequest(status, refreshOk) ==
    /\ pc = "detail" /\ todo # <<>>
    /\ status # HTTP_200_OK => errors < MaxErrors
    /\ lastDetail' = <<Head(todo), status>>
    /\ detailRequests' = detailRequests + 1
    /\ requested' = requested \cup {Head(todo)}
    /\ IF status = HTTP_200_OK
       THEN /\ activity_data_json' = Append(activity_data_json, DetailOf(Head(todo).str))
            /\ todo' = Tail(todo)
            /\ pc' = IF Tail(todo) = <<>> THEN ExtractorNext("detail") ELSE "detail"
            /\ UNCHANGED <<errors, detailErrors, result>>
       ELSE /\ errors' = errors + 1
            /\ detailErrors' = detailErrors + 1
            /\ IF api_error_handler(status, refreshOk) = "raise"
               THEN pc' = "idle" /\ result' = "aborted"
               ELSE pc' = "detail" /\ result' = result
            /\ UNCHANGED <<activity_data_json, todo>>
    /\ UNCHANGED otherVars
    /\ UNCHANGED <<durableVars, fetchVars, new_activity_ids, runs, startKeys>>
    /\ UNCHANGED sideVars

\* upload_data_s3.post_data_to_s3: an exception is logged and False returned
UploadS3(ok) ==
    /\ pc = "s3"
    /\ s3' = IF ok /\ activity_data_json # <<>>
             THEN s3 \cup RecordIds(activity_data_json) ELSE s3
    /\ pc' = ExtractorNext("s3")
    /\ UNCHANGED otherVars
    /\ UNCHANGED <<upstream, cache, staged, clean, table, fetchVars, detailVars,
                   runs, result, errors, startKeys>>
    /\ UNCHANGED sideVars

\* download_data_local.update_local_data: the new rows are appended to the
\* rows of the local copy
update_local_data(existing_data, new_df) ==
    IF new_df = <<>> THEN existing_data ELSE existing_data \o new_df

UpdateLocal ==
    /\ pc = "local"
    /\ staged' = update_local_data(staged, activity_data_json)
    /\ pc' = ExtractorNext("local")
    /\ UNCHANGED otherVars
    /\ UNCHANGED <<upstream, cache, s3, clean, table, fetchVars, detailVars,
                   runs, result, errors, startKeys>>
    /\ UNCHANGED sideVars

\* cache_data.update_cached_ids: redis_client.sadd(cache_key, *ids); on an
\* exception the error is logged and the run goes on
update_cached_ids(ids, writeOk) == IF writeOk THEN cache \cup ids ELSE cache

CacheIds(writeOk) ==
    /\ pc = "cache"
    /\ cache' = update_cached_ids(all_activity_ids, writeOk)
    /\ pc' = ExtractorNext("cache")
    /\ UNCHANGED otherVars
    /\ UNCHANGED <<upstream, s3, staged, clean, table, fetchVars, detailVars,
                   runs, result, errors, startKeys>>
    /\ UNCHANGED sideVars

\* strava_transform: the clean rows are made from the rows of the local copy
Transform ==
    /\ pc = "transform"
    /\ clean' = RowsOfRecords(staged)
    /\ pc' = "load"
    /\ UNCHANGED otherVars
    /\ UNCHANGED <<upstream, cache, s3, staged, table, fetchVars, detailVars,
                   runs, result, errors, startKeys>>
    /\ UNCHANGED sideVars

\* strava_load: insert_data of the clean rows
Load ==
    /\ pc = "load"
    /\ table' = InsertData(table, clean).table
    /\ pc' = "idle" /\ result' = "ok"
    /\ UNCHANGED otherVars
    /\ UNCHANGED <<upstream, cache, s3, staged, clean, fetchVars, detailVars,
                   runs, errors, startKeys>>
    /\ UNCHANGED sideVars

\* The process is killed, or a step raises: the run ends where it is and
\* the durable state stays as it is.
Crash ==
    /\ pc # "idle"
    /\ pc' = "idle" /\ result' = "crashed"
    /\ UNCHANGED otherVars
    /\ UNCHANGED <<durableVars, fetchVars, detailVars, runs, errors, startKeys>>
    /\ UNCHANGED sideVars

Next ==
    \/ \E readOk \in BOOLEAN : StartRun(readOk)
    \/ \E status \in StatusCodes, refreshOk \in BOOLEAN : PageRequest(status, refreshOk)
    \/ \E order \in IterationOrders(ChangeSet(all_activity_ids, cached_ids)) : Resolve(order)
    \/ \E status \in StatusCodes, refreshOk \in BOOLEAN : DetailRequest(status, refreshOk)
    \/ \E ok \in BOOLEAN : UploadS3(ok)
    \/ UpdateLocal
    \/ \E writeOk \in BOOLEAN : CacheIds(writeOk)
    \/ Transform
    \/ Load
    \/ Crash

Init == InitRun(UpstreamSizes) /\ InitOther

Spec == Init /\ [][Next]_vars

(***************************************************************************)
(* The id fetch alone (get_activity_ids), over upstreams of several pages. *)
(***************************************************************************)
InitFetch == InitRun(FetchSizes) /\ InitOther

NextFetch ==
    \/ \E readOk \in BOOLEAN : StartRun(readOk)
    \/ \E status \in StatusCodes, refreshOk \in BOOLEAN : PageRequest(status, refreshOk)

SpecFetch == InitFetch /\ [][NextFetch]_vars

(***************************************************************************)
(* Properties of the id fetch.                                             *)
(***************************************************************************)
Recoverable == {HTTP_429_RATE_LIMITED, HTTP_401_UNAUTHORISED}

\* the response sequence [200 with 50 ids, 429, 200 with 25 ids, 200 empty]
RateLimitScenario ==
    /\ upstream = ITEMS_PER_PAGE + 25
    /\ pc = "resolve"
    /\ pageLog = <<<<1, HTTP_200_OK>>, <<2, HTTP_429_RATE_LIMITED>>,
                   <<2, HTTP_200_OK>>, <<3, HTTP_200_OK>>>>

\* C1: in get_activity_ids the request that follows a 429 or 401 response to
\* the request for page p is again for page p; the page counter advances (by
\* one) only after a 200 response with a non-empty page; so the fetch returns
\* every id of the upstream, and for the responses [200 with 50 ids, 429, 200
\* with 25 ids, 200 empty] exactly the 75 ids of both pages.
C1_RetrySamePage ==
    /\ \A i \in 1..(Len(pageLog) - 1) :
          /\ pageLog[i][2] \in Recoverable => pageLog[i + 1][1] = pageLog[i][1]
          /\ pageLog[i + 1][1] # pageLog[i][1] =>
                /\ pageLog[i][2] = HTTP_200_OK
                /\ PageOf(pageLog[i][1]) # {}
                /\ pageLog[i + 1][1] = pageLog[i][1] + 1
    /\ (pc = "ids" /\ pageLog # <<>> /\ pageLog[Len(pageLog)][2] \in Recoverable)
          => page = pageLog[Len(pageLog)][1]
    /\ pc = "resolve" => all_activity_ids = StrSet(UpstreamIds)
    /\ RateLimitScenario =>
          /\ Cardinality(all_activity_ids) = 75
          /\ all_activity_ids = StrSet(0..74)

\* C1 witness: the scenario of the claim has run to its end
C1_Witness ==
    /\ RateLimitScenario
    /\ Cardinality(all_activity_ids) = 75

C3_RetryKeepsKeyCount ==
    /\ \A k \in Keys(table) : Cardinality(RowsWithKey(table, k)) = 1
    /\ (pc = "idle" /\ result = "ok" /\ new_activity_ids # {}
        /\ Keys(clean) \subseteq startKeys)
          => /\ Len(table) = Cardinality(startKeys)
             /\ Keys(table) = startKeys

\* C3 witness: the ids of persisted records were not in the cache (its update
\* failed), a second run fetched and upserted them again, and the key count
\* is the one before the run
C3_Witness ==
    /\ pc = "idle" /\ result = "ok" /\ runs >= 2
    /\ new_activity_ids # {}
    /\ new_activity_ids \subseteq StrSet(startKeys)
    /\ Keys(clean) \subseteq startKeys
    /\ Len(staged) > Cardinality(RecordIds(staged))
    /\ Len(table) = Cardinality(startKeys)

\* C8 as stated: a detail request is issued for x only if the id fetch of the
\* run returned x and x was not in the set read at the start of the run, and
\* never for an id that is in the IdentifierSet.
C8_DetailOnlyForUnseen ==
    /\ requested \subseteq all_activity_ids
    /\ requested \cap cached_ids = {}
    /\ pc = "detail" => requested \cap cache = {}

\* C9 as stated: a 404 answer to a detail request does not raise and does not
\* abort the run.
C9_NotFoundIsSkipped ==
    ~(lastDetail # <<>> /\ lastDetail[2] = HTTP_404_NOT_FOUND /\ result = "aborted")

(***************************************************************************)
(* insert_data called on one table from two connections (two loader runs), *)
(* one row at a time: each row is one statement and one commit.            *)
(***************************************************************************)
\* primary-key values of the rows
KeyValues == {1, 2}
\* rows of one clean file
MaxBatch == 3
\* insert_data calls in one behaviour
MaxCalls == 2

Rows == [key : KeyValues, val : {None} \cup Vals]
Batches == UNION {[1..n -> Rows] : n \in 0..MaxBatch}

\* The table is empty, as create_table leaves it, and the transformer has
\* written some clean file.
InitUpsert ==
    /\ upstream = 0 /\ cache = {} /\ s3 = {} /\ staged = <<>>
    /\ clean \in Batches
    /\ table = <<>>
    /\ pc = "idle" /\ runs = 0 /\ result = "none" /\ errors = 0
    /\ startKeys = {}
    /\ cached_ids = {} /\ page = 1 /\ all_activity_ids = {}
    /\ pageLog = <<>> /\ pageRequests = 0
    /\ new_activity_ids = {} /\ todo = <<>> /\ activity_data_json = <<>>
    /\ lastDetail = <<>> /\ detailRequests = 0 /\ requested = {}
    /\ detailErrors = 0
    /\ InitOther

\* a bug: the first failing row ends the loop
AfterRowAbort(i, n, failed) == IF failed THEN n + 1 ELSE i + 1

\* insert_data: the row that follows row i of n; the except branch of the
\* loop body logs, rolls back and goes on with the next row
AfterRow(i, n, failed) == i + 1

\* insert_data is called: the data frame is the clean file
BeginInsert(c) ==
    /\ conns[c].phase # "running"
    /\ calls < MaxCalls
    /\ calls' = calls + 1
    /\ conns' = [d \in Conns |->
          IF d = c
          THEN [phase |-> "running", i |-> 1, added |-> 0, updated |-> 0,
                again |-> fresh,
                solo |-> \A e \in Conns \ {c} : conns[e].phase # "running",
                batch |-> clean, before |-> table, after |-> <<>>]
          ELSE IF conns[d].phase = "running"
               THEN [conns[d] EXCEPT !.solo = FALSE]
               ELSE conns[d]]
    /\ fresh' = FALSE
    /\ UNCHANGED <<durableVars, fetchVars, detailVars, runVars, notFound, fileVars>>
    /\ UNCHANGED sideVars

\* one iteration of the loop of insert_data
ExecuteRow(c) ==
    /\ conns[c].phase = "running"
    /\ conns[c].i <= Len(conns[c].batch)
    /\ LET r == conns[c].batch[conns[c].i]
           st == InsertStep([table |-> table, added |-> conns[c].added,
                             updated |-> conns[c].updated], r)
       IN /\ table' = st.table
          /\ conns' = [conns EXCEPT ![c].added = st.added,
                                    ![c].updated = st.updated,
                                    ![c].i = AfterRow(conns[c].i, Len(conns[c].batch),
                                                      ExecuteFails(r))]
    /\ UNCHANGED <<upstream, cache, s3, staged, clean, fetchVars, detailVars,
                   runVars, calls, fresh, notFound, fileVars>>
    /\ UNCHANGED sideVars

\* the loop of insert_data is over: the counts are logged
EndInsert(c) ==
    /\ conns[c].phase = "running"
    /\ conns[c].i > Len(conns[c].batch)
    /\ conns' = [conns EXCEPT ![c].phase = "done", ![c].after = table]
    /\ fresh' = conns[c].solo
    /\ UNCHANGED <<durableVars, fetchVars, detailVars, runVars, calls, notFound,
                   fileVars>>
    /\ UNCHANGED sideVars

NextUpsert ==
    \/ \E c \in Conns : BeginInsert(c)
    \/ \E c \in Conns : ExecuteRow(c)
    \/ \E c \in Conns : EndInsert(c)

SpecUpsert == InitUpsert /\ [][NextUpsert]_vars

(***************************************************************************)
(* Properties of the merge-upsert.                                         *)
(***************************************************************************)
\* the call of connection c is over, nothing else wrote during it, and it
\* began on the table a complete undisturbed call with the same batch left
SecondRun(c) ==
    /\ conns[c].phase = "done"
    /\ conns[c].again
    /\ conns[c].solo

Valid(batch) == SelectSeq(batch, LAMBDA r : ~ExecuteFails(r))
DistinctKeys(batch) ==
    \A i, j \in 1..Len(batch) : batch[i].key = batch[j].key => i = j

\* C4 as stated: the second of two runs of insert_data with the same batch
\* of N records leaves the rows as they were and counts inserted = 0 and
\* updated = N.
C4_SecondRunUpdatesAll ==
    \A c \in Conns : SecondRun(c) =>
        /\ conns[c].after = conns[c].before
        /\ conns[c].added = 0
        /\ conns[c].updated = Len(conns[c].batch)

\* What insert_data does on the second run: the rows stay as they were and
\* nothing is counted as added; with distinct keys nothing is counted as
\* updated either (a row set to its current values has rowcount 0).
SecondRunCountsNothing ==
    \A c \in Conns : SecondRun(c) =>
        /\ conns[c].after = conns[c].before
        /\ conns[c].added = 0
        /\ DistinctKeys(conns[c].batch) => conns[c].updated = 0

\* the row a step of connection c executed, when the step was one
Executed(c) ==
    /\ conns[c].phase = "running"
    /\ conns'[c].phase = "running"
    /\ conns'[c].i # conns[c].i

\* C5: each upsert of a row changes the set of primary keys from K to K with
\* the key of the row, when the row was written without error, and to K
\* otherwise; no step removes a key; every key has one row in every state,
\* also while two calls on the same keys are interleaved.
C5_KeysOnlyGrow ==
    /\ [](\A k \in Keys(table) : Cardinality(RowsWithKey(table, k)) = 1)
    /\ [][/\ Keys(table) \subseteq Keys(table')
          /\ \A c \in Conns : Executed(c) =>
                LET r == conns[c].batch[conns[c].i]
                IN Keys(table') =
                      Keys(table) \cup (IF ExecuteFails(r) THEN {} ELSE {r.key})
          /\ (\A c \in Conns : ~Executed(c)) => table' = table]_vars

\* C5 witness: two calls are under way, each has upserted the same key, and
\* the key has one row
C5_Witness ==
    /\ \A c \in Conns : conns[c].phase = "running" /\ conns[c].i = 2
    /\ ~ExecuteFails(clean[1])
    /\ Cardinality(RowsWithKey(table, clean[1].key)) = 1
    /\ Len(table) = 1

\* C6: after an undisturbed call of insert_data the table is the one that
\* upserting the batch without its failing records gives: the records before
\* a failing record stay committed and the records after it are written.
C6_FailingRowOnlySkipped ==
    \A c \in Conns : (conns[c].phase = "done" /\ conns[c].solo) =>
        /\ conns[c].after = InsertData(conns[c].before, Valid(conns[c].batch)).table
        /\ Keys(conns[c].after) =
              Keys(conns[c].before) \cup {r.key : r \in {conns[c].batch[i] :
                  i \in {j \in 1..Len(conns[c].batch) : ~ExecuteFails(conns[c].batch[j])}}}

\* C6 witness: the second of three records failed; the first and the third,
\* of different keys, are in the table
C6_Witness ==
    \E c \in Conns :
        /\ conns[c].phase = "done" /\ conns[c].solo
        /\ Len(conns[c].batch) = 3
        /\ ~ExecuteFails(conns[c].batch[1])
        /\ ExecuteFails(conns[c].batch[2])
        /\ ~ExecuteFails(conns[c].batch[3])
        /\ conns[c].batch[1].key # conns[c].batch[3].key
        /\ conns[c].before = <<>>
        /\ conns[c].after = <<conns[c].batch[1], conns[c].batch[3]>>

(***************************************************************************)
(* The change-set, in both variants: the Redis id set of strava.py and the *)
(* file-based cache of download_data_local.update_cache.                   *)
(***************************************************************************)
\* largest number an identifier is made of
MaxId == 2

\* an integer identifier, as the JSON of the API and the columns of a data
\* frame hold it; IntId(n) and Str(n) are different Python values
IntId(n) == [int |-> n]

\* the values of the id column of a data frame
FrameIds == {Str(n) : n \in 1..MaxId} \cup {IntId(n) : n \in 1..MaxId}
\* data frames with an id column, of at most MaxId rows
Frames == UNION {[1..n -> [id : FrameIds, val : {1}]] : n \in 0..MaxId}

\* update_cache: the data frame it saves and returns
update_cache(cached, new) ==
    IF cached = <<>> THEN new
    ELSE IF new = <<>> THEN cached
    ELSE LET cached_data_ids == RecordIds(cached)
             new_data_ids == RecordIds(new)
             new_ids == ChangeSet(new_data_ids, cached_data_ids)
             rows_to_add == SelectSeq(new, LAMBDA r : r.id \in new_ids)
         IN cached \o rows_to_add

\* Either strava.py is about to compute the change-set of two sets of id
\* strings, or update_cache is about to be called on two data frames.
InitCache ==
    /\ upstream = 0 /\ cache = {} /\ s3 = {} /\ staged = <<>>
    /\ clean = <<>> /\ table = <<>>
    /\ runs = 0 /\ result = "none" /\ errors = 0 /\ startKeys = {}
    /\ page = 1 /\ pageLog = <<>> /\ pageRequests = 0
    /\ new_activity_ids = {} /\ todo = <<>> /\ activity_data_json = <<>>
    /\ lastDetail = <<>> /\ detailRequests = 0 /\ requested = {}
    /\ detailErrors = 0
    /\ conns = [c \in Conns |-> IdleConn] /\ calls = 0 /\ fresh = FALSE
    /\ notFound = {}
    /\ updated_cached_data = <<>>
    /\ RedisIdle /\ AuthIdle /\ ValidIdle /\ TaskIdle
    /\ \/ /\ pc = "difference"
          /\ all_activity_ids \in SUBSET StrSet(0..MaxId)
          /\ cached_ids \in SUBSET StrSet(0..MaxId)
          /\ cached_data = <<>> /\ new_data = <<>>
       \/ /\ pc = "update_cache"
          /\ all_activity_ids = {} /\ cached_ids = {}
          /\ cached_data \in Frames
          /\ new_data \in Frames

\* strava_extractor: new_activity_ids = all_activity_ids - cached_ids
Difference ==
    /\ pc = "difference"
    /\ new_activity_ids' = ChangeSet(all_activity_ids, cached_ids)
    /\ pc' = "resolved"
    /\ UNCHANGED <<durableVars, fetchVars, todo, activity_data_json, lastDetail,
                   detailRequests, requested, detailErrors, runs, result,
                   errors, startKeys, otherVars>>
    /\ UNCHANGED sideVars

\* update_cache(file_directory, cached_data, new_data, file_name, id_col)
UpdateCache ==
    /\ pc = "update_cache"
    /\ updated_cached_data' = update_cache(cached_data, new_data)
    /\ pc' = "updated"
    /\ UNCHANGED <<durableVars, fetchVars, detailVars, runs, result, errors,
                   startKeys, upsertVars, notFound, cached_data, new_data>>
    /\ UNCHANGED sideVars

NextCache ==
    \/ Difference
    \/ UpdateCache

SpecCache == InitCache /\ [][NextCache]_vars

\* the rows update_cache put behind the rows of the cache
RowsAdded ==
    SubSeq(updated_cached_data, Len(cached_data) + 1, Len(updated_cached_data))

\* C7: the change-set is the set difference of the fetched and the cached
\* ids, empty when the two sets are equal and the fetched set when the cache
\* is empty; in the Redis variant and in update_cache, where the rows added to
\* the cache are the fetched rows whose id equals no cached id exactly.
C7_ChangeSetIsDifference ==
    /\ pc = "resolved" =>
          /\ new_activity_ids = all_activity_ids \ cached_ids
          /\ all_activity_ids = cached_ids => new_activity_ids = {}
          /\ cached_ids = {} => new_activity_ids = all_activity_ids
    /\ pc = "updated" =>
          /\ SubSeq(updated_cached_data, 1, Len(cached_data)) = cached_data
          /\ RecordIds(RowsAdded) = RecordIds(new_data) \ RecordIds(cached_data)
          /\ \A i \in 1..Len(RowsAdded) :
                \E j \in 1..Len(new_data) : RowsAdded[i] = new_data[j]
          /\ RecordIds(new_data) = RecordIds(cached_data) => RowsAdded = <<>>
          /\ cached_data = <<>> => RowsAdded = new_data

\* C7 witness: the cache holds the string "1", the new data the integer 1 and
\* the string "1", and the integer 1 alone was added
C7_Witness ==
    /\ pc = "updated"
    /\ RecordIds(cached_data) = {Str(1)}
    /\ RecordIds(new_data) = {Str(1), IntId(1)}
    /\ RecordIds(RowsAdded) = {IntId(1)}

(***************************************************************************)
(* get_strava_activity of the legacy extractor (strava_extractor.py).      *)
(***************************************************************************)
RECURSIVE Orders(_)
\* the lists without repetition of the elements of a set
Orders(S) ==
    IF S = {} THEN {<<>>}
    ELSE UNION {{<<x>> \o q : q \in Orders(S \ {x})} : x \in S}

\* api_error (strava_extractor.py): "retry" is a True return, "false" a False
\* return, "exit" the sys.exit(1) of refresh_access_token
api_error(status_code, refreshOk) ==
    IF status_code = HTTP_429_RATE_LIMITED THEN "retry"
    ELSE IF status_code = HTTP_401_UNAUTHORISED
         THEN (IF refreshOk THEN "retry" ELSE "exit")
    ELSE "false"

\* get_strava_activity is called with a list of new activity ids
InitLegacy ==
    /\ upstream = 0 /\ cache = {} /\ s3 = {} /\ staged = <<>>
    /\ clean = <<>> /\ table = <<>>
    /\ pc = "get_strava_activity"
    /\ runs = 0 /\ result = "running" /\ errors = 0 /\ startKeys = {}
    /\ cached_ids = {} /\ page = 1 /\ all_activity_ids = {}
    /\ pageLog = <<>> /\ pageRequests = 0
    /\ new_activity_ids \in SUBSET (0..MaxSmall)
    /\ todo \in Orders(new_activity_ids)
    /\ activity_data_json = <<>>
    /\ lastDetail = <<>> /\ detailRequests = 0 /\ requested = {}
    /\ detailErrors = 0
    /\ InitOther

\* One iteration of "for activity_id in new_activity_ids": the request and
\* what the code does with the response; every branch ends the iteration.
LegacyDetailRequest(status, refreshOk) ==
    /\ pc = "get_strava_activity" /\ todo # <<>>
    /\ lastDetail' = <<Head(todo), status>>
    /\ detailRequests' = detailRequests + 1
    /\ requested' = requested \cup {Head(todo)}
    /\ notFound' = IF status = HTTP_404_NOT_FOUND
                   THEN notFound \cup {Head(todo)} ELSE notFound
    /\ detailErrors' = IF status = HTTP_200_OK THEN detailErrors
                       ELSE detailErrors + 1
    /\ activity_data_json' =
          IF status = HTTP_200_OK
          THEN Append(activity_data_json, DetailOf(Head(todo)))
          ELSE activity_data_json
    /\ IF status # HTTP_200_OK /\ api_error(status, refreshOk) = "exit"
       THEN pc' = "exited" /\ result' = "aborted" /\ todo' = todo
       ELSE pc' = pc /\ result' = result /\ todo' = Tail(todo)
    /\ errors' = IF status \in {HTTP_200_OK, HTTP_404_NOT_FOUND} \cup Recoverable
                 THEN errors ELSE errors + 1
    /\ UNCHANGED <<durableVars, fetchVars, new_activity_ids, runs,
                   startKeys, upsertVars, fileVars>>
    /\ UNCHANGED sideVars

\* return detailed_data_json
LegacyReturn ==
    /\ pc = "get_strava_activity" /\ todo = <<>>
    /\ pc' = "returned" /\ result' = "success"
    /\ UNCHANGED <<durableVars, fetchVars, detailVars, runs, errors,
                   startKeys, otherVars>>
    /\ UNCHANGED sideVars

NextLegacy ==
    \/ \E status \in StatusCodes, refreshOk \in BOOLEAN :
          LegacyDetailRequest(status, refreshOk)
    \/ LegacyReturn

SpecLegacy == InitLegacy /\ [][NextLegacy]_vars

\* C10 as stated: when the detail fetch returns and the only answers other
\* than 200 were 429, 401 and 404, its output has one record for every
\* requested identifier except those answered not-found: a 429 or 401 answer
\* loses no identifier.
C10_NoIdLostToRecoverable ==
    (pc = "returned" /\ errors = 0) =>
        /\ RecordIds(activity_data_json) = requested \ notFound
        /\ Len(activity_data_json) = Cardinality(requested \ notFound)

\* C12 as stated, for the detail requests of the legacy extractor: after a
\* 401 answer to the request for an activity the token is refreshed and the
\* next request issued is the same request again.
C12_SameRequestAfterRefresh ==
    [][(/\ detailRequests' = detailRequests + 1
        /\ lastDetail # <<>>
        /\ lastDetail[2] = HTTP_401_UNAUTHORISED)
          => lastDetail'[1] = lastDetail[1]]_vars

(***************************************************************************)
(* get_strava_data of the legacy extractor (strava_extractor.py): the      *)
(* paginated fetch of the activity summaries.                              *)
(***************************************************************************)
\* get_strava_data is called: page = 1, all_activities_json = []
InitLegacyData ==
    /\ upstream \in FetchSizes
    /\ cache = {} /\ s3 = {} /\ staged = <<>> /\ clean = <<>> /\ table = <<>>
    /\ pc = "get_strava_data"
    /\ runs = 0 /\ result = "running" /\ errors = 0 /\ startKeys = {}
    /\ cached_ids = {} /\ page = 1 /\ all_activity_ids = {}
    /\ pageLog = <<>> /\ pageRequests = 0
    /\ new_activity_ids = {} /\ todo = <<>> /\ activity_data_json = <<>>
    /\ lastDetail = <<>> /\ detailRequests = 0 /\ requested = {}
    /\ detailErrors = 0
    /\ InitOther

\* One iteration of the loop of get_strava_data.  api_error is asked first:
\* on True the same page is requested again; any other status than 200 is
\* logged and ends the loop with "break", and the pages read so far are
\* returned; an empty page ends the loop too.
LegacyPageRequest(status, refreshOk) ==
    /\ pc = "get_strava_data"
    /\ status # HTTP_200_OK => errors < MaxErrors
    /\ pageLog' = <<<<page, status>>>>
    /\ pageRequests' = pageRequests + 1
    /\ errors' = IF status = HTTP_200_OK THEN errors ELSE errors + 1
    /\ IF api_error(status, refreshOk) = "retry"
       THEN UNCHANGED <<pc, result, page, all_activity_ids>>
       ELSE IF api_error(status, refreshOk) = "exit"
       THEN pc' = "exited" /\ result' = "aborted"
            /\ UNCHANGED <<page, all_activity_ids>>
       ELSE IF status # HTTP_200_OK
       THEN pc' = "data_returned" /\ result' = "success"
            /\ UNCHANGED <<page, all_activity_ids>>
       ELSE IF PageOf(page) = {}
       THEN pc' = "data_returned" /\ result' = "success"
            /\ UNCHANGED <<page, all_activity_ids>>
       ELSE /\ all_activity_ids' = all_activity_ids \cup PageOf(page)
            /\ page' = page + 1
            /\ UNCHANGED <<pc, result>>
    /\ UNCHANGED <<durableVars, detailVars, cached_ids, runs, startKeys,
                   otherVars>>
    /\ UNCHANGED sideVars

NextLegacyData ==
    \E status \in StatusCodes, refreshOk \in BOOLEAN :
        LegacyPageRequest(status, refreshOk)

SpecLegacyData == InitLegacyData /\ [][NextLegacyData]_vars

\* C11 as stated: the paginated fetch never returns a partial batch: when it
\* returns, it returns the activities of every page of the upstream, and a
\* page answered with a status that is neither success nor recoverable ends
\* the run with an error instead.
C11_NoPartialBatch ==
    /\ pc = "data_returned" => all_activity_ids = UpstreamIds
    /\ (pageLog # <<>> /\ pageLog[1][2] \notin {HTTP_200_OK} \cup Recoverable)
          => pc # "data_returned"

(***************************************************************************)
(* Credentials: refresh_access_token and the 401 branch of                 *)
(* api_error_handler (strava.py), in two processes that run the extractor  *)
(* at the same time and share the .env file.  Tokens are numbered: 0 is    *)
(* the pair in .env when the processes start, k the pair of the k-th       *)
(* answer of the token endpoint.                                           *)
(***************************************************************************)
\* the old variables, at rest
InitQuiet ==
    /\ upstream = 0 /\ cache = {} /\ s3 = {} /\ staged = <<>>
    /\ clean = <<>> /\ table = <<>>
    /\ pc = "idle" /\ runs = 0 /\ result = "none" /\ errors = 0
    /\ startKeys = {}
    /\ cached_ids = {} /\ page = 1 /\ all_activity_ids = {}
    /\ pageLog = <<>> /\ pageRequests = 0
    /\ new_activity_ids = {} /\ todo = <<>> /\ activity_data_json = <<>>
    /\ lastDetail = <<>> /\ detailRequests = 0 /\ requested = {}
    /\ detailErrors = 0
    /\ conns = [c \in Conns |-> IdleConn] /\ calls = 0 /\ fresh = FALSE
    /\ notFound = {}
    /\ cached_data = <<>> /\ new_data = <<>> /\ updated_cached_data = <<>>

quietVars == <<durableVars, fetchVars, detailVars, runVars, otherVars>>

Procs == {"p", "q"}

\* the statuses the API answers a request with
AuthStatuses ==
    {HTTP_200_OK, HTTP_401_UNAUTHORISED, HTTP_429_RATE_LIMITED,
     HTTP_500_SERVER_ERROR}

\* the requests of one run: the id pages and the activities, in order
Targets == 1..MaxSmall

\* A process that has imported strava.py: auth_headers holds the access
\* token and STRAVA_REFRESH_TOKEN the refresh token of .env at that time.
NewFetcher ==
    [pc |-> "fetch", target |-> 1, header |-> 0, refresh_token |-> 0,
     errs |-> 0, unauth |-> 0, refreshes |-> 0, failed |-> FALSE,
     new_access_token |-> 0, new_refresh_token |-> 0, rotated |-> FALSE,
     envBefore |-> <<>>, envAfter |-> <<>>, returned |-> FALSE,
     did |-> <<>>, raced |-> FALSE, solo |-> TRUE]

InRefresh(f) == f.pc \in {"refresh", "set_access", "set_refresh"}

InitAuth ==
    /\ InitQuiet
    /\ RedisIdle /\ ValidIdle /\ TaskIdle
    /\ env = [access |-> 0, refresh |-> 0]
    /\ token_endpoint = [calls |-> 0, issued |-> 0]
    /\ fetchers = [p \in Procs |-> NewFetcher]

\* api_error_handler: auth_headers["Authorization"] = f"Bearer {new_access_token}"
HeaderAfterRefresh(old, new_access_token) == new_access_token

\* a bug: the refresh token of the answer is never written
RefreshTokenNeverStored(stored, new_refresh_token, refresh_token) == stored

\* refresh_access_token: STRAVA_REFRESH_TOKEN in .env after
\*   if new_refresh_token != refresh_token: set_key(...)
RefreshTokenStored(stored, new_refresh_token, refresh_token) ==
    IF new_refresh_token # refresh_token THEN new_refresh_token ELSE stored

\* One request of the loops of get_activity_ids / get_activity_data and what
\* the code does with the response, up to the call of refresh_access_token.
AuthRequest(p, status) ==
    LET f == fetchers[p]
        others == Procs \ {p}
        \* the locals of the last refresh_access_token call are gone
        g == [f EXCEPT !.returned = FALSE,
                       !.new_access_token = 0, !.new_refresh_token = 0,
                       !.rotated = FALSE,
                       !.envBefore = <<>>, !.envAfter = <<>>,
                       !.errs = IF status = HTTP_200_OK THEN f.errs
                                ELSE f.errs + 1]
    IN /\ f.pc = "fetch"
       /\ status # HTTP_200_OK => f.errs < MaxErrors
       /\ fetchers' = [fetchers EXCEPT ![p] =
             IF status = HTTP_200_OK
             THEN IF f.target = MaxSmall
                  THEN [g EXCEPT !.pc = ExtractorNext("detail")]
                  ELSE [g EXCEPT !.target = f.target + 1]
             ELSE IF status = HTTP_401_UNAUTHORISED
             THEN [g EXCEPT !.pc = "refresh", !.unauth = f.unauth + 1,
                            !.raced = \E q \in others : InRefresh(fetchers[q])]
             ELSE IF api_error_handler(status, TRUE) = "raise"
             THEN [g EXCEPT !.pc = "aborted"]
             ELSE g]
       /\ UNCHANGED <<env, token_endpoint>>
       /\ UNCHANGED <<quietVars, redisVars, validVars, taskVars>>

\* refresh_access_token: requests.post(token_url, ...) and raise_for_status.
\* ok: the endpoint answers 200; rotated: the answer holds a refresh token
\* other than the one sent.
AuthTokenCall(p, ok, rotated) ==
    LET f == fetchers[p]
        others == Procs \ {p}
        issued == token_endpoint.issued + 1
    IN /\ f.pc = "refresh"
       /\ token_endpoint' =
             [calls |-> token_endpoint.calls + 1,
              issued |-> IF ok THEN issued ELSE token_endpoint.issued]
       /\ fetchers' = [q \in Procs |->
             IF q # p
             THEN (IF InRefresh(fetchers[q])
                   THEN [fetchers[q] EXCEPT !.solo = FALSE] ELSE fetchers[q])
             ELSE IF ok
             THEN [f EXCEPT !.pc = "set_access",
                            !.refreshes = f.refreshes + 1,
                            !.new_access_token = issued,
                            !.new_refresh_token =
                                IF rotated THEN issued ELSE f.refresh_token,
                            !.rotated = rotated,
                            !.envBefore = env, !.envAfter = <<>>,
                            !.solo = \A r \in others : ~InRefresh(fetchers[r])]
             ELSE [f EXCEPT !.pc = IF api_error_handler(HTTP_401_UNAUTHORISED,
                                                        FALSE) = "raise"
                                   THEN "aborted" ELSE "fetch",
                            !.refreshes = f.refreshes + 1,
                            !.failed = TRUE]]
       /\ UNCHANGED env
       /\ UNCHANGED <<quietVars, redisVars, validVars, taskVars>>

\* refresh_access_token: set_key(ENV_PATH, "STRAVA_ACCESS_TOKEN", ...)
AuthSetAccess(p) ==
    LET f == fetchers[p]
    IN /\ f.pc = "set_access"
       /\ env' = [env EXCEPT !.access = f.new_access_token]
       /\ fetchers' = [fetchers EXCEPT ![p].pc = "set_refresh"]
       /\ UNCHANGED token_endpoint
       /\ UNCHANGED <<quietVars, redisVars, validVars, taskVars>>

\* refresh_access_token: set_key of the refresh token when it differs from
\* the one sent, reload(config), return; api_error_handler then updates
\* auth_headers and returns True, and the loop requests the same target.
AuthSetRefresh(p) ==
    LET f == fetchers[p]
        header == HeaderAfterRefresh(f.header, f.new_access_token)
    IN /\ f.pc = "set_refresh"
       /\ env' = [env EXCEPT !.refresh =
             RefreshTokenStored(env.refresh, f.new_refresh_token,
                                f.refresh_token)]
       /\ fetchers' = [fetchers EXCEPT ![p] =
             [f EXCEPT !.pc = "fetch", !.header = header,
                       !.envAfter = env', !.returned = TRUE]]
       /\ UNCHANGED token_endpoint
       /\ UNCHANGED <<quietVars, redisVars, validVars, taskVars>>

\* strava_extractor after the fetch: post_data_to_s3, update_local_data and
\* the update of the id cache, in this order
AuthSave(p) ==
    LET f == fetchers[p]
    IN /\ f.pc = ExtractorNext("detail")
       /\ fetchers' = [fetchers EXCEPT ![p] =
             [f EXCEPT !.pc = ExtractorNext("cache"),
                       !.did = <<f.pc, ExtractorNext(f.pc),
                                 ExtractorNext(ExtractorNext(f.pc))>>]]
       /\ UNCHANGED <<env, token_endpoint>>
       /\ UNCHANGED <<quietVars, redisVars, validVars, taskVars>>

NextAuth ==
    \/ \E p \in Procs, status \in AuthStatuses : AuthRequest(p, status)
    \/ \E p \in Procs, ok \in BOOLEAN, rotated \in BOOLEAN :
          AuthTokenCall(p, ok, rotated)
    \/ \E p \in Procs : AuthSetAccess(p)
    \/ \E p \in Procs : AuthSetRefresh(p)
    \/ \E p \in Procs : AuthSave(p)

SpecAuth == InitAuth /\ [][NextAuth]_vars

\* both 401s were answered while the other process was still refreshing
Concurrent401s ==
    /\ \A p \in Procs : fetchers[p].unauth <= 1
    /\ \E p \in Procs : fetchers[p].raced

\* C13: when two concurrent requests of the same source each receive a 401,
\* one call is made to the token endpoint and the stored tokens are those of
\* that one refresh.
C13_SingleFlightRefresh ==
    Concurrent401s =>
        /\ token_endpoint.calls <= 1
        /\ env.refresh \in {0, env.access}

\* C14: a refresh the token endpoint does not answer with success ends the
\* run: the step leaves the stored tokens, the header and the refresh token
\* of the process as they were, no refresh follows it, and the run uploads
\* nothing, updates no local data and no id cache.
C14_FailedRefreshIsFatal ==
    /\ [](\A p \in Procs :
            fetchers[p].failed =>
                fetchers[p].pc = "aborted" /\ fetchers[p].did = <<>>)
    /\ [][\A p \in Procs :
            /\ (fetchers'[p].failed /\ ~fetchers[p].failed) =>
                  /\ env' = env
                  /\ fetchers'[p].header = fetchers[p].header
                  /\ fetchers'[p].refresh_token = fetchers[p].refresh_token
            /\ fetchers[p].failed =>
                  fetchers'[p].refreshes = fetchers[p].refreshes]_vars

\* a refresh failed after an earlier one of the same run had stored a token
C14_Witness ==
    \E p \in Procs :
        /\ fetchers[p].failed
        /\ fetchers[p].refreshes = 2
        /\ fetchers[p].header # 0
        /\ env.access # 0

\* C15: each write of a successful refresh stores the token just issued; when
\* the refresh returns and no other refresh ran meanwhile, .env (envAfter, as
\* read at the return) holds the access token just issued, the refresh token just issued when it differs
\* from the one sent, and the refresh token it held before otherwise.
C15_RefreshPersistsTokens ==
    \A p \in Procs :
        LET f == fetchers[p]
        IN /\ f.pc = "set_refresh" /\ f.solo =>
                 env.access = f.new_access_token
           /\ f.returned /\ f.solo =>
                 /\ f.envAfter.access = f.new_access_token
                 /\ f.new_refresh_token # f.refresh_token =>
                       f.envAfter.refresh = f.new_refresh_token
                 /\ f.new_refresh_token = f.refresh_token =>
                       f.envAfter.refresh = f.envBefore.refresh

\* a second refresh returned a rotated refresh token, and it is stored
C15_Witness ==
    \E p \in Procs :
        LET f == fetchers[p]
        IN /\ f.returned /\ f.solo /\ f.rotated
           /\ f.refreshes = 2
           /\ f.envAfter.refresh = f.new_refresh_token
           /\ f.envBefore.refresh # f.envAfter.refresh

(***************************************************************************)
(* The id cache on its own: get_cached_ids and update_cached_ids of        *)
(* cache_data.py called by successive runs, with a Redis that may fail.    *)
(***************************************************************************)
IdSets == SUBSET StrSet(KeyValues)

InitRedis ==
    /\ InitQuiet
    /\ AuthIdle /\ ValidIdle /\ TaskIdle
    /\ readLog = <<>> /\ lastAdd = <<>>

\* a run reads the known ids: readLog holds what each run was given
RedisRead(readOk) ==
    /\ Len(readLog) < MaxCalls
    /\ readLog' = Append(readLog, get_cached_ids(readOk))
    /\ UNCHANGED <<cache, lastAdd>>
    /\ UNCHANGED <<upstream, s3, staged, clean, table, fetchVars, detailVars,
                   runVars, otherVars, authVars, validVars, taskVars>>

\* redis_client.sadd(cache_key, *ids): SADD without a member is an error of
\* the server, which update_cached_ids logs like any other
RedisAdd(ids, writeOk) ==
    /\ cache' = update_cached_ids(ids, writeOk /\ ids # {})
    /\ lastAdd' = [before |-> cache, ids |-> ids, after |-> cache']
    /\ UNCHANGED readLog
    /\ UNCHANGED <<upstream, s3, staged, clean, table, fetchVars, detailVars,
                   runVars, otherVars, authVars, validVars, taskVars>>

NextRedis ==
    \/ \E readOk \in BOOLEAN : RedisRead(readOk)
    \/ \E ids \in IdSets, writeOk \in BOOLEAN : RedisAdd(ids, writeOk)

SpecRedis == InitRedis /\ [][NextRedis]_vars

\* C16: after update_cached_ids with a set S the stored set is the previous
\* set united with S, and the set a later run reads contains the set any
\* earlier run read.
C16_CacheOnlyGrows ==
    /\ lastAdd # <<>> => lastAdd.after = lastAdd.before \cup lastAdd.ids
    /\ \A i \in 1..Len(readLog) : \A j \in i..Len(readLog) :
          readLog[i] \subseteq readLog[j]

\* the stored set itself never loses an id
StoredOnlyGrows ==
    /\ lastAdd # <<>> => lastAdd.before \subseteq lastAdd.after
    /\ [][cache \subseteq cache']_vars

(***************************************************************************)
(* Validation: post_load_checks and compare_random_rows.  A value is its   *)
(* Python type t and its content v; a DataFrame is its columns and rows.   *)
(***************************************************************************)
StrValue(v) == [t |-> "str", v |-> v]
IntValue(v) == [t |-> "int", v |-> v]
FloatValue(v) == [t |-> "float", v |-> v]
DecimalValue(v) == [t |-> "Decimal", v |-> v]
\* the None compare_random_rows takes for a row that the query did not find
NoValue == [t |-> "NoneType", v |-> 0]

DataFrame(columns, rows) == [columns |-> columns, rows |-> rows]
\* pd.DataFrame(): what fetch_data gives for a table that cannot be read,
\* and pd.DataFrame([]) for a table without rows
EmptyDataFrame == DataFrame(<<>>, <<>>)

\* the tables of datasets, in the order of the dict
TableNames == <<"apple_steps", "spend_transactions">>

Columns(df) == {df.columns[i] : i \in 1..Len(df.columns)}

\* a bug: hourly tables are looked up by the date alone
primary_keyDateOnly(df_db) ==
    IF "date" \in Columns(df_db) /\ "hour" \in Columns(df_db)
    THEN <<"date">>
    ELSE <<df_db.columns[1]>>

\* primary_key = ['date', 'hour'] if both are columns else [df_db.columns[0]]
primary_key(df_db) ==
    IF "date" \in Columns(df_db) /\ "hour" \in Columns(df_db)
    THEN <<"date", "hour">>
    ELSE <<df_db.columns[1]>>

\* f"{key_row[pk]}": the text of a value, whatever its type
Text(value) == value.v

\* `pk` == "text" in DataFrame.query: a string equals the text, a number
\* never equals a string
QueryEq(value, text) == value.t = "str" /\ value.v = text

KeyOf(row, primary_keys) ==
    [i \in 1..Len(primary_keys) |-> row[primary_keys[i]]]

RECURSIVE drop_duplicates(_, _, _)
\* df_pre_load[primary_keys].drop_duplicates(): the key of each row, in the
\* order of first appearance
drop_duplicates(rows, primary_keys, seen) ==
    IF rows = <<>> THEN <<>>
    ELSE LET k == KeyOf(Head(rows), primary_keys)
         IN IF k \in seen
            THEN drop_duplicates(Tail(rows), primary_keys, seen)
            ELSE <<k>> \o drop_duplicates(Tail(rows), primary_keys,
                                          seen \cup {k})

\* df.query(query_condition) for one key
query(df, key_row, primary_keys) ==
    SelectSeq(df.rows,
              LAMBDA row : \A i \in 1..Len(primary_keys) :
                  QueryEq(row[primary_keys[i]], Text(key_row[i])))

\* The comparison of a numeric column with a string constant is evaluated by
\* the engine pandas.eval selects: the python engine answers False for every
\* row, numexpr, when it is installed, rejects the operand types.
Engines == {"python", "numexpr"}

QueryRaises(df, primary_keys, engine) ==
    /\ engine = "numexpr"
    /\ \E n \in 1..Len(df.rows), i \in 1..Len(primary_keys) :
          df.rows[n][primary_keys[i]].t # "str"

IsNa(value) == value.t = "NoneType"

\* pre_load_value != db_value or type(pre_load_value) != type(db_value),
\* after the float of the staged side is made a Decimal when the database
\* side is one
Differ(pre_load_value, db_value) ==
    LET pre == IF pre_load_value.t = "float" /\ db_value.t = "Decimal"
               THEN DecimalValue(pre_load_value.v) ELSE pre_load_value
    IN pre.v # db_value.v \/ pre.t # db_value.t

FieldValue(found, field) ==
    IF found = <<>> THEN NoValue ELSE found[1][field]

\* the fields of one key that compare_random_rows would report
Mismatches(df_db, df_pre_load, key_row, primary_keys) ==
    LET db_row == query(df_db, key_row, primary_keys)
        pre_load_row == query(df_pre_load, key_row, primary_keys)
    IN {n \in 1..Len(df_pre_load.columns) :
          LET field == df_pre_load.columns[n]
              pre_load_value == FieldValue(pre_load_row, field)
              db_value == FieldValue(db_row, field)
          IN /\ ~(IsNa(pre_load_value) /\ IsNa(db_value))
             /\ Differ(pre_load_value, db_value)}

Least(S) == CHOOSE n \in S : \A m \in S : n <= m

\* compare_random_rows: the keys in order, the fields in order, return at
\* the first field that differs.  With ten rows or fewer every key is taken.
compare_random_rows(df_db, df_pre_load, primary_keys, table_name, engine) ==
    LET keys == drop_duplicates(df_pre_load.rows, primary_keys, {})
        bad == {k \in 1..Len(keys) :
                  Mismatches(df_db, df_pre_load, keys[k], primary_keys) # {}}
        last == IF bad = {} THEN Len(keys) ELSE Least(bad)
        pairs == {<<table_name,
                    query(df_pre_load, keys[k], primary_keys)[1],
                    query(df_db, keys[k], primary_keys)[1]>> :
                  k \in {j \in 1..last :
                           /\ query(df_pre_load, keys[j], primary_keys) # <<>>
                           /\ query(df_db, keys[j], primary_keys) # <<>>}}
    IN IF keys # <<>> /\ (\/ QueryRaises(df_db, primary_keys, engine)
                          \/ QueryRaises(df_pre_load, primary_keys, engine))
       THEN [kind |-> "raised", field |-> "TypeError", pairs |-> {}]
       ELSE IF bad = {}
       THEN [kind |-> "pass", field |-> "", pairs |-> pairs]
       ELSE [kind |-> "field",
             field |-> df_pre_load.columns[
                 Least(Mismatches(df_db, df_pre_load, keys[last],
                                  primary_keys))],
             pairs |-> pairs]

\* the body of the loop of post_load_checks for one table
post_load_check(table_name, df_pre_load, df_db, engine) ==
    IF Len(df_pre_load.rows) # Len(df_db.rows)
    THEN [kind |-> "dimension", field |-> "", pairs |-> {}]
    ELSE IF ~("date" \in Columns(df_db) /\ "hour" \in Columns(df_db))
            /\ df_db.columns = <<>>
    THEN [kind |-> "raised", field |-> "IndexError", pairs |-> {}]
    ELSE compare_random_rows(df_db, df_pre_load, primary_key(df_db),
                             table_name, engine)

\* ---- the frames of the two tables
HourlyColumns == <<"date", "hour", "step_count">>
SpendColumns == <<"id", "amount">>
ValueKinds == {"int", "str"}

Typed(kind, v) == IF kind = "str" THEN StrValue(v) ELSE IntValue(v)

HourlyRows(kind) ==
    {[date |-> StrValue(1), hour |-> Typed(kind, h), step_count |-> IntValue(c)] :
        h \in {1, 2}, c \in {5, 6}}

\* at most two rows, of different hours
HourlyFrames(kind) ==
    {DataFrame(HourlyColumns, <<>>)}
    \cup {DataFrame(HourlyColumns, <<r>>) : r \in HourlyRows(kind)}
    \cup {DataFrame(HourlyColumns, <<pair[1], pair[2]>>) :
            pair \in {x \in HourlyRows(kind) \X HourlyRows(kind) :
                        x[1].hour # x[2].hour}}

SpendStaged(kind) ==
    {DataFrame(SpendColumns, <<>>)}
    \cup {DataFrame(SpendColumns,
                    <<[id |-> Typed(kind, 1), amount |-> FloatValue(a)]>>) :
            a \in {2000, 2001}}

SpendPersisted(kind) ==
    {DataFrame(SpendColumns,
               <<[id |-> Typed(kind, 1), amount |-> a]>>) :
        a \in {DecimalValue(2000), DecimalValue(2001), FloatValue(2000)}}

\* what fetch_data returns for a table: its rows, or a frame without
\* columns when it has none or cannot be read
Fetched(frames) ==
    {IF df.rows = <<>> THEN EmptyDataFrame ELSE df : df \in frames}
    \cup {EmptyDataFrame}

InitValidate ==
    /\ InitQuiet
    /\ RedisIdle /\ AuthIdle /\ TaskIdle
    /\ \E hk \in ValueKinds, sk \in ValueKinds :
         /\ \E h \in HourlyFrames(hk), s \in SpendStaged(sk) :
               pre_Load_dfs = [apple_steps |-> h, spend_transactions |-> s]
         /\ \E h \in Fetched(HourlyFrames(hk)),
               s \in Fetched(SpendPersisted(sk)) :
               db_dataframes = [apple_steps |-> h, spend_transactions |-> s]
    /\ table_index = 1
    /\ outcomes = <<>>
    /\ compared = {}

Raised == outcomes # <<>> /\ outcomes[Len(outcomes)].kind = "raised"

\* one iteration of the loop of post_load_checks; an exception leaves the
\* loop and post_load
CheckTable(engine) ==
    /\ table_index \in 1..Len(TableNames)
    /\ ~Raised
    /\ LET table_name == TableNames[table_index]
           r == post_load_check(table_name, pre_Load_dfs[table_name],
                                db_dataframes[table_name], engine)
       IN /\ outcomes' = Append(outcomes,
                [table |-> table_name, kind |-> r.kind, field |-> r.field])
          /\ compared' = compared \cup r.pairs
    /\ table_index' = table_index + 1
    /\ UNCHANGED <<pre_Load_dfs, db_dataframes>>
    /\ UNCHANGED <<quietVars, redisVars, authVars, taskVars>>

NextValidate == \E engine \in Engines : CheckTable(engine)

SpecValidate == InitValidate /\ [][NextValidate]_vars

ValidationOver == table_index > Len(TableNames) \/ Raised

Reports == {"dimension", "field", "pass"}

OutcomesOf(table_name) ==
    {n \in 1..Len(outcomes) :
        outcomes[n].table = table_name /\ outcomes[n].kind \in Reports}

\* C17: a table whose staged and persisted row counts differ gets a
\* dimension mismatch and no field comparison, and when the validation is
\* over every table has exactly one outcome.
C17_OneOutcomePerTable ==
    /\ \A n \in 1..Len(outcomes) :
          LET table_name == outcomes[n].table
          IN Len(pre_Load_dfs[table_name].rows)
                 # Len(db_dataframes[table_name].rows)
             => /\ outcomes[n].kind = "dimension"
                /\ \A pair \in compared : pair[1] # table_name
    /\ ValidationOver =>
          \A i \in 1..Len(TableNames) :
              Cardinality(OutcomesOf(TableNames[i])) = 1

\* the first half of C17 alone
DimensionMismatchSkipsFields ==
    \A n \in 1..Len(outcomes) :
        LET table_name == outcomes[n].table
        IN Len(pre_Load_dfs[table_name].rows)
               # Len(db_dataframes[table_name].rows)
           => /\ outcomes[n].kind = "dimension"
              /\ \A pair \in compared : pair[1] # table_name

SpendExample ==
    /\ pre_Load_dfs.spend_transactions.rows =
          <<[id |-> IntValue(1), amount |-> FloatValue(2000)]>>
    /\ db_dataframes.spend_transactions.rows =
          <<[id |-> IntValue(1), amount |-> DecimalValue(2001)]>>

\* C19: a table gets at most one mismatch, on a field whose values differ;
\* for the staged row {id=1, amount=20.00} and the persisted row
\* {id=1, amount=20.01} the mismatch reported is on amount.
C19_FirstMismatchReported ==
    \A n \in 1..Len(outcomes) :
        outcomes[n].table = "spend_transactions" =>
            /\ outcomes[n].kind = "field" =>
                  \E staged_row \in {pre_Load_dfs.spend_transactions.rows[1]},
                     db_row \in {db_dataframes.spend_transactions.rows[1]} :
                      Differ(staged_row[outcomes[n].field],
                             db_row[outcomes[n].field])
            /\ SpendExample =>
                  outcomes[n].kind = "field" /\ outcomes[n].field = "amount"

\* with a textual id the row is found and the mismatch is on amount
TextualIdMismatchOnAmount ==
    \A n \in 1..Len(outcomes) :
        (/\ outcomes[n].table = "spend_transactions"
         /\ pre_Load_dfs.spend_transactions.rows =
               <<[id |-> StrValue(1), amount |-> FloatValue(2000)]>>
         /\ db_dataframes.spend_transactions.rows =
               <<[id |-> StrValue(1), amount |-> DecimalValue(2001)]>>)
        => outcomes[n].kind = "field" /\ outcomes[n].field = "amount"

(***************************************************************************)
(* Orchestration: main() of main.py calls the steps one after the other;   *)
(* etl_dag.py runs them as tasks ordered by their upstream tasks.          *)
(***************************************************************************)
MainOrder ==
    <<"apple_extractor", "apple_transformer", "apple_loader",
      "daylio_extractor", "daylio_transformer", "daylio_loader",
      "spend_extractor", "spend_transformer", "spend_loader",
      "strava_extractor", "strava_transformer", "strava_loader",
      "youtube_html_extractor", "youtube_html_transformer",
      "youtube_extractor", "youtube_transformer", "youtube_loader",
      "post_load">>

\* the callables of the tasks of etl_dag.py
DagTasks ==
    {MainOrder[i] : i \in 1..Len(MainOrder)}
    \cup {"youtube_activity_transformer"}

\* the upstream tasks the >> lines of etl_dag.py give each task
Upstream(task) ==
    CASE task = "apple_transformer" -> {"apple_extractor"}
      [] task = "apple_loader" -> {"apple_transformer"}
      [] task = "strava_transformer" -> {"strava_extractor"}
      [] task = "strava_loader" -> {"strava_transformer"}
      [] task = "youtube_html_transformer" -> {"youtube_html_extractor"}
      [] task = "youtube_transformer" -> {"youtube_extractor"}
      [] task = "youtube_activity_transformer" ->
             {"youtube_html_transformer", "youtube_transformer"}
      [] task = "youtube_loader" -> {"youtube_activity_transformer"}
      [] task = "daylio_transformer" -> {"daylio_extractor"}
      [] task = "daylio_loader" -> {"daylio_transformer"}
      [] task = "spend_transformer" -> {"spend_extractor"}
      [] task = "spend_loader" -> {"spend_transformer"}
      [] task = "post_load" ->
             {"apple_loader", "daylio_loader", "spend_loader",
              "strava_loader", "youtube_loader"}
      [] OTHER -> {}

Sources == {"apple", "daylio", "spend", "strava", "youtube"}

\* the source a step belongs to; post_load belongs to none
SourceOf(task) ==
    CASE task \in {"apple_extractor", "apple_transformer", "apple_loader"}
             -> "apple"
      [] task \in {"daylio_extractor", "daylio_transformer", "daylio_loader"}
             -> "daylio"
      [] task \in {"spend_extractor", "spend_transformer", "spend_loader"}
             -> "spend"
      [] task \in {"strava_extractor", "strava_transformer", "strava_loader"}
             -> "strava"
      [] task = "post_load" -> "validation"
      [] OTHER -> "youtube"

Loaders ==
    {"apple_loader", "daylio_loader", "spend_loader", "strava_loader",
     "youtube_loader"}

Modes == {"main", "dag"}

TasksOf(m) == IF m = "main" THEN DagTasks \ {"youtube_activity_transformer"}
              ELSE DagTasks

InitOrch ==
    /\ InitQuiet
    /\ RedisIdle /\ AuthIdle /\ ValidIdle
    /\ mode \in Modes
    /\ \E before \in {{}, Sources} :
          tasks = [state |-> [t \in TasksOf(mode) |-> "none"],
                   persisted_before |-> before,
                   persisted |-> before]

Position(task) == CHOOSE i \in 1..Len(MainOrder) : MainOrder[i] = task

\* a bug: the DAG without its last ordering, [the five loads] >> post_load
ReadyWithoutLoads(task) ==
    IF mode = "main"
    THEN \A i \in 1..(Position(task) - 1) :
            tasks.state[MainOrder[i]] = "success"
    ELSE \A u \in Upstream(task) \ Loaders : tasks.state[u] = "success"

\* main(): a step is reached when every call before it has returned;
\* the DAG: a task runs when every upstream task has succeeded.
Ready(task) ==
    IF mode = "main"
    THEN \A i \in 1..(Position(task) - 1) :
            tasks.state[MainOrder[i]] = "success"
    ELSE \A u \in Upstream(task) : tasks.state[u] = "success"

Runnable(task) == tasks.state[task] = "none" /\ Ready(task)

\* One step runs to its end.  ok = FALSE: it ends the way the fatal paths of
\* the extractors end, sys.exit(1) or an exception nothing catches; one such
\* failure per run is considered.
RunTask(task, ok) ==
    /\ Runnable(task)
    /\ ~ok => \A t \in TasksOf(mode) : tasks.state[t] # "failed"
    /\ tasks' = [tasks EXCEPT
          !.state[task] = IF ok THEN "success" ELSE "failed",
          !.persisted = IF ok /\ task \in Loaders
                        THEN tasks.persisted \cup {SourceOf(task)}
                        ELSE tasks.persisted]
    /\ UNCHANGED mode
    /\ UNCHANGED <<quietVars, redisVars, authVars, validVars>>

NextOrch == \E task \in TasksOf(mode), ok \in BOOLEAN : RunTask(task, ok)

SpecOrch == InitOrch /\ [][NextOrch]_vars

RunOver == \A task \in TasksOf(mode) : ~Runnable(task)

\* C20: when a step of one source has failed and nothing more can run, every
\* step of every other source has run, and the rows persisted before the run
\* are still there.
C20_FailureStaysInItsSource ==
    /\ tasks.persisted_before \subseteq tasks.persisted
    /\ RunOver =>
          \A failed \in TasksOf(mode) :
              tasks.state[failed] = "failed" =>
                  \A task \in TasksOf(mode) :
                      SourceOf(task) \in Sources \ {SourceOf(failed)}
                          => tasks.state[task] = "success"

\* the claim as the DAG alone keeps it
DagFailureStaysInItsSource ==
    mode = "dag" => C20_FailureStaysInItsSource

(***************************************************************************)
(* Further properties of the id fetch (SpecFetch).                         *)
(***************************************************************************)
\* the request i of the log was answered 200 with fewer ids than a full page
ShortPage(i) ==
    /\ pageLog[i][2] = HTTP_200_OK
    /\ Cardinality(PageOf(pageLog[i][1])) < ITEMS_PER_PAGE

\* C21: no page is requested after a page that held fewer than
\* ITEMS_PER_PAGE ids, and an upstream whose only page is not full is
\* fetched with one request.
C21_StopsAtShortPage ==
    /\ \A i \in 1..(Len(pageLog) - 1) : ~ShortPage(i)
    /\ (/\ pc = "resolve" /\ errors = 0
        /\ upstream \in 1..(ITEMS_PER_PAGE - 1)) => pageRequests = 1

\* what the loop does: it stops at the first empty page, so every run that
\* ends without an error has requested one page more than the upstream fills
StopsAtEmptyPage ==
    /\ \A i \in 1..(Len(pageLog) - 1) :
          ~(pageLog[i][2] = HTTP_200_OK /\ PageOf(pageLog[i][1]) = {})
    /\ (pc = "resolve" /\ errors = 0) =>
          /\ PageOf(pageLog[Len(pageLog)][1]) = {}
          /\ pageRequests = Cardinality({q \in 1..3 : PageOf(q) # {}}) + 1

(***************************************************************************)
(* The order of the steps (SpecOrch).                                      *)
(***************************************************************************)
Extractors ==
    {"apple_extractor", "daylio_extractor", "spend_extractor",
     "strava_extractor", "youtube_html_extractor", "youtube_extractor"}

\* the extract step(s) whose output a transform step reads
ExtractorsOf(task) ==
    CASE task = "apple_transformer" -> {"apple_extractor"}
      [] task = "daylio_transformer" -> {"daylio_extractor"}
      [] task = "spend_transformer" -> {"spend_extractor"}
      [] task = "strava_transformer" -> {"strava_extractor"}
      [] task = "youtube_html_transformer" -> {"youtube_html_extractor"}
      [] task = "youtube_transformer" -> {"youtube_extractor"}
      [] task = "youtube_activity_transformer" ->
             {"youtube_html_extractor", "youtube_extractor"}
      [] OTHER -> {}

Ran(task) == tasks.state[task] # "none"
Succeeded(task) == tasks.state[task] = "success"

\* C22: post_load has started only when the load of every source has
\* completed; a load only when every extract and transform step of its
\* source has completed; a transform only when its extract has completed.
C22_ValidatorAfterEveryLoad ==
    \A task \in TasksOf(mode) :
        Ran(task) =>
            /\ task = "post_load" => \A l \in Loaders : Succeeded(l)
            /\ task \in Loaders =>
                  \A t \in TasksOf(mode) \ {task} :
                      SourceOf(t) = SourceOf(task) => Succeeded(t)
            /\ \A e \in ExtractorsOf(task) : Succeeded(e)

\* the DAG has run post_load
C22_Witness ==
    /\ mode = "dag"
    /\ Succeeded("post_load")
    /\ \A l \in Loaders : Succeeded(l)

(***************************************************************************)
(* The refresh token a refresh sends (SpecAuth).                           *)
(***************************************************************************)
\* api_error_handler passes STRAVA_REFRESH_TOKEN, the name strava.py bound
\* by "from config import ..." when the process imported it
SentRefreshToken(p) == fetchers[p].refresh_token

\* C23: each call of refresh_access_token sends the refresh token .env
\* holds at that time.
C23_SendsStoredRefreshToken ==
    [][\A p \in Procs :
          fetchers'[p].refreshes = fetchers[p].refreshes + 1
              => SentRefreshToken(p) = env.refresh]_vars

\* the name bound at import is never bound again
ImportedTokenNeverRebound ==
    \A p \in Procs : fetchers[p].refresh_token = NewFetcher.refresh_token

(***************************************************************************)
(* The id fetch against an upstream that answers 200 or a recoverable      *)
(* error.  The loop of get_activity_ids always takes its next step, and    *)
(* the errors of a run are finitely many (MaxErrors).                      *)
(***************************************************************************)
RecoverableOrOk == Recoverable \cup {HTTP_200_OK}

RecoverablePageRequest ==
    \E status \in RecoverableOrOk : PageRequest(status, TRUE)

NextFetchLive ==
    \/ \E readOk \in BOOLEAN : StartRun(readOk)
    \/ RecoverablePageRequest

SpecFetchLive ==
    InitFetch /\ [][NextFetchLive]_vars /\ WF_vars(RecoverablePageRequest)

\* C24: a 429 answer leaves the fetch running on the same page, with no
\* error passed to the caller, and a fetch that is answered recoverable
\* errors finitely often returns.
C24_RateLimitNeverFatal ==
    /\ [][(/\ pageRequests' = pageRequests + 1
           /\ pageLog'[Len(pageLog')][2] = HTTP_429_RATE_LIMITED)
             => /\ pc' = "ids"
                /\ result' = result
                /\ page' = page
                /\ all_activity_ids' = all_activity_ids]_vars
    /\ (pc = "ids") ~> (pc = "resolve" /\ all_activity_ids = StrSet(UpstreamIds))

\* a fetch that was rate limited on its second page has returned
C24_Witness ==
    /\ pc = "resolve"
    /\ upstream > ITEMS_PER_PAGE
    /\ \E i \in 1..Len(pageLog) :
          pageLog[i] = <<2, HTTP_429_RATE_LIMITED>>
    /\ all_activity_ids = StrSet(UpstreamIds)

(***************************************************************************)
(* The keys compare_random_rows takes from a staged table, for tables of   *)
(* up to MaxRows rows in which a key value may occur in several rows.      *)
(***************************************************************************)
SAMPLE_SIZE == 10
MaxRows == 13

\* a staged table of num_rows rows holding unique different key values
StagedWith(num_rows, unique) ==
    DataFrame(<<"id">>,
              [n \in 1..num_rows |-> [id |-> StrValue(((n - 1) % unique) + 1)]])

InitSample ==
    /\ InitQuiet
    /\ RedisIdle /\ AuthIdle /\ TaskIdle
    /\ \E num_rows \in 0..MaxRows :
          \E unique \in 1..(IF num_rows = 0 THEN 1 ELSE num_rows) :
              pre_Load_dfs = StagedWith(num_rows, unique)
    /\ db_dataframes = <<>>
    /\ table_index = 1
    /\ outcomes = <<>>
    /\ compared = {}

SeqRange(seq) == {seq[n] : n \in 1..Len(seq)}

\* compare_random_rows up to the loop over the keys: sample_size,
\* drop_duplicates, and DataFrame.sample(n=sample_size), which draws without
\* replacement and raises ValueError when asked for more rows than there are
SampleKeys ==
    /\ table_index = 1
    /\ LET num_rows == Len(pre_Load_dfs.rows)
           sample_size == IF num_rows < SAMPLE_SIZE THEN num_rows
                          ELSE SAMPLE_SIZE
           unique_key_combinations ==
               drop_duplicates(pre_Load_dfs.rows, <<"id">>, {})
       IN IF num_rows > SAMPLE_SIZE
          THEN IF sample_size > Len(unique_key_combinations)
               THEN /\ outcomes' = <<[kind |-> "raised", field |-> "ValueError"]>>
                    /\ compared' = {}
               ELSE /\ outcomes' = <<[kind |-> "sampled", field |-> ""]>>
                    /\ \E sampled \in SUBSET SeqRange(unique_key_combinations) :
                          /\ Cardinality(sampled) = sample_size
                          /\ compared' = sampled
          ELSE /\ outcomes' = <<[kind |-> "sampled", field |-> ""]>>
               /\ compared' = SeqRange(unique_key_combinations)
    /\ table_index' = 2
    /\ UNCHANGED <<pre_Load_dfs, db_dataframes>>
    /\ UNCHANGED <<quietVars, redisVars, authVars, taskVars>>

NextSample == SampleKeys

SpecSample == InitSample /\ [][NextSample]_vars

StagedKeys == SeqRange(drop_duplicates(pre_Load_dfs.rows, <<"id">>, {}))

\* C25: the keys compared are min(10, row count) different keys of the
\* staged table, whether or not a key occurs in several rows.
C25_SamplesMinTenKeys ==
    table_index = 2 =>
        /\ outcomes[1].kind = "sampled"
        /\ compared \subseteq StagedKeys
        /\ Cardinality(compared) = Min(SAMPLE_SIZE, Len(pre_Load_dfs.rows))

\* when no key occurs twice the claim holds
DistinctKeysSampled ==
    (table_index = 2
       /\ Cardinality(StagedKeys) = Len(pre_Load_dfs.rows)) =>
        /\ outcomes[1].kind = "sampled"
        /\ compared \subseteq StagedKeys
        /\ Cardinality(compared) = Min(SAMPLE_SIZE, Len(pre_Load_dfs.rows))

(***************************************************************************)
(* The field comparison (SpecValidate).                                    *)
(***************************************************************************)
\* the three cases in which two values count as equal
CountAsEqual(staged_value, db_value) ==
    \/ IsNa(staged_value) /\ IsNa(db_value)
    \/ /\ staged_value.t = "float" /\ db_value.t = "Decimal"
       /\ staged_value.v = db_value.v
    \/ staged_value.v = db_value.v /\ staged_value.t = db_value.t

\* the persisted rows holding the key of a staged row
PersistedRowsOf(table_name, staged_row) ==
    LET df_db == db_dataframes[table_name]
        primary_keys == primary_key(df_db)
    IN {n \in 1..Len(df_db.rows) :
          \A k \in 1..Len(primary_keys) :
              df_db.rows[n][primary_keys[k]] = staged_row[primary_keys[k]]}

\* some staged row has no persisted row, or differs from it in a field
ShouldReport(table_name) ==
    LET df_pre_load == pre_Load_dfs[table_name]
        df_db == db_dataframes[table_name]
    IN \E n \in 1..Len(df_pre_load.rows) :
          \/ PersistedRowsOf(table_name, df_pre_load.rows[n]) = {}
          \/ \E m \in PersistedRowsOf(table_name, df_pre_load.rows[n]),
                c \in 1..Len(df_pre_load.columns) :
                 ~CountAsEqual(df_pre_load.rows[n][df_pre_load.columns[c]],
                               df_db.rows[m][df_pre_load.columns[c]])

SameRowCount(table_name) ==
    /\ Len(pre_Load_dfs[table_name].rows) = Len(db_dataframes[table_name].rows)
    /\ db_dataframes[table_name].columns # <<>>

\* C26: a table of equal row counts gets a mismatch exactly when a staged
\* row has no persisted row of its key or a field of the two rows is not
\* equal in one of the three ways.
C26_MismatchExactlyWhenDifferent ==
    \A n \in 1..Len(outcomes) :
        SameRowCount(outcomes[n].table) =>
            (outcomes[n].kind = "field" <=> ShouldReport(outcomes[n].table))

TextualKeys(table_name) ==
    \A n \in 1..Len(pre_Load_dfs[table_name].rows) :
        LET primary_keys == primary_key(db_dataframes[table_name])
        IN \A k \in 1..Len(primary_keys) :
              pre_Load_dfs[table_name].rows[n][primary_keys[k]].t = "str"

\* where the key columns hold text, C26 holds
TextualKeysCompared ==
    \A n \in 1..Len(outcomes) :
        (SameRowCount(outcomes[n].table) /\ TextualKeys(outcomes[n].table)) =>
            (outcomes[n].kind = "field" <=> ShouldReport(outcomes[n].table))

(***************************************************************************)
(* strava_extractor of the legacy extractor after the summaries were       *)
(* fetched: the detail fetch, then update_cache on the summary cache file  *)
(* (updated_cached_data) and on the detail cache file (staged).            *)
(***************************************************************************)
\* new_activities_df: the summaries of the fetched activities
SummaryRows(ids) ==
    LET order == CHOOSE o \in Orders(ids) : TRUE
    IN [n \in 1..Len(order) |-> DetailOf(order[n])]

\* strava_extractor.py:267-275, both cache files are written
LegacySave ==
    /\ pc = "returned"
    /\ updated_cached_data' = update_cache(cached_data, SummaryRows(new_activity_ids))
    /\ staged' = update_cache(staged, activity_data_json)
    /\ pc' = "saved"
    /\ UNCHANGED <<upstream, cache, s3, clean, table, fetchVars, detailVars,
                   runs, result, errors, startKeys>>
    /\ UNCHANGED <<upsertVars, notFound, cached_data, new_data>>
    /\ UNCHANGED sideVars

NextLegacyRun ==
    \/ \E status \in StatusCodes, refreshOk \in BOOLEAN :
          LegacyDetailRequest(status, refreshOk)
    \/ LegacyReturn
    \/ LegacySave

SpecLegacyRun == InitLegacy /\ [][NextLegacyRun]_vars

\* the ids the run added to the summary cache file
NewlySeen == RecordIds(updated_cached_data) \ RecordIds(cached_data)

\* C27: at the end of the run every id the run marked as seen has its
\* detail record in the batch the run staged.
C27_SeenOnlyWithDetail ==
    pc = "saved" => NewlySeen \subseteq RecordIds(staged)

\* the ids marked as seen without a detail record are those whose request
\* was not answered 200
SeenWithoutDetail ==
    pc = "saved" =>
        NewlySeen \ RecordIds(staged) = new_activity_ids \ RecordIds(activity_data_json)

(***************************************************************************)
(* Further properties of the sync run of strava.py (Spec).                 *)
(***************************************************************************)
\* C28: the local copy holds at most one row for each activity id, also
\* after a run that was interrupted between update_local_data and the
\* update of the id cache has been repeated.
C28_OneRowPerId == Len(staged) = Cardinality(RecordIds(staged))

\* the steps of a run up to the update of the id cache, during which the
\* Redis set is the one the run read, or failed to read, at its start
BeforeCacheUpdate == {"ids", "resolve", "detail", "s3", "local", "cache"}

\* C29: a run whose read of the id cache failed, and so holds another set
\* than the stored one, issues no detail request.
C29_FailedReadIsNotEmptySet ==
    (pc \in BeforeCacheUpdate /\ cached_ids # cache) => detailRequests = 0

(***************************************************************************)
(* The cursor-based fetch, YouTubeExtractor._api_call (youtube.py).  Here  *)
(* page is the loop variable of "for page in range(self.max_pages)",       *)
(* lastDetail the local next_page_token (0 for None), pageLog the requests *)
(* with their responses and activity_data_json the list items.             *)
(***************************************************************************)
MaxPages == 3

\* nextPageToken of a response: a token, or 0 when the response has none
PageTokens == 0..2
\* the items of a response, named by the request they answer
Items(request, count) == [n \in 1..count |-> [id |-> request, val |-> n]]

InitCursor ==
    /\ upstream = 0 /\ cache = {} /\ s3 = {} /\ staged = <<>>
    /\ clean = <<>> /\ table = <<>>
    /\ pc = "_api_call"
    /\ runs = 0 /\ result = "running" /\ errors = 0 /\ startKeys = {}
    /\ cached_ids = {} /\ page = 0 /\ all_activity_ids = {}
    /\ pageLog = <<>> /\ pageRequests = 0
    /\ new_activity_ids = {} /\ todo = <<>> /\ activity_data_json = <<>>
    /\ lastDetail = 0 /\ detailRequests = 0 /\ requested = {}
    /\ detailErrors = 0
    /\ InitOther

\* a bug: params["pageToken"] is never set
PageTokenSentNever(params_token, next_page_token) == params_token

\* if next_page_token: params["pageToken"] = next_page_token
PageTokenSent(params_token, next_page_token) ==
    IF next_page_token # 0 THEN next_page_token ELSE params_token

\* One iteration of the loop: the request, and the response or the HttpError
\* that execute() raises.  params holds no pageToken at the first request.
CursorRequest(ok, count, nextPageToken) ==
    /\ pc = "_api_call" /\ page < MaxPages
    /\ pageRequests' = pageRequests + 1
    /\ LET sent == PageTokenSent(IF pageLog = <<>> THEN 0
                                 ELSE pageLog[Len(pageLog)].sent, lastDetail)
       IN IF ok
          THEN /\ pageLog' = Append(pageLog,
                     [sent |-> sent, ok |-> TRUE,
                      items |-> Items(pageRequests', count),
                      nextPageToken |-> nextPageToken])
               /\ activity_data_json' =
                     activity_data_json \o Items(pageRequests', count)
               /\ lastDetail' = nextPageToken
               /\ page' = page + 1
               /\ pc' = IF nextPageToken = 0 \/ page' = MaxPages
                        THEN "returned" ELSE pc
               /\ result' = IF pc' = "returned" THEN "success" ELSE result
          ELSE /\ pageLog' = Append(pageLog,
                     [sent |-> sent, ok |-> FALSE, items |-> <<>>,
                      nextPageToken |-> 0])
               /\ pc' = "raised" /\ result' = "aborted"
               /\ UNCHANGED <<activity_data_json, lastDetail, page>>
    /\ UNCHANGED <<durableVars, cached_ids, all_activity_ids, new_activity_ids,
                   todo, detailRequests, requested, detailErrors, runs, errors,
                   startKeys, otherVars>>
    /\ UNCHANGED sideVars

NextCursor ==
    \E ok \in BOOLEAN, count \in 0..2, nextPageToken \in PageTokens :
        CursorRequest(ok, count, nextPageToken)

SpecCursor == InitCursor /\ [][NextCursor]_vars

RECURSIVE Concatenation(_, _)
\* the items of the first n responses, in the order of the requests
Concatenation(log, n) ==
    IF n = 0 THEN <<>> ELSE Concatenation(log, n - 1) \o log[n].items

\* C30: at most max_pages requests are issued; each request after the first
\* carries the nextPageToken of the response before it, so no request
\* follows a response without one; the list returned is the items of all
\* responses in the order of the requests.
C30_CursorFollowsTokens ==
    /\ pageRequests <= MaxPages /\ Len(pageLog) = pageRequests
    /\ \A i \in 2..Len(pageLog) :
          /\ pageLog[i - 1].ok
          /\ pageLog[i - 1].nextPageToken # 0
          /\ pageLog[i].sent = pageLog[i - 1].nextPageToken
    /\ pc = "returned" =>
          /\ activity_data_json = Concatenation(pageLog, Len(pageLog))
          /\ \/ pageLog[Len(pageLog)].nextPageToken = 0
             \/ Len(pageLog) = MaxPages

\* three pages were fetched with two different tokens and the list returned
C30_Witness ==
    /\ pc = "returned"
    /\ Len(pageLog) = 3
    /\ pageLog[2].sent = 1 /\ pageLog[3].sent = 2
    /\ pageLog[3].nextPageToken = 0
    /\ Len(activity_data_json) = 4

====
